---- MODULE Spec2Model ----
(***************************************************************************)
(* A model of the DeepLens patch utilities:                                *)
(*   fix_notebook.py          the Notebook Patcher (a one-shot script)     *)
(*   fix_psf_radial.py        fixed_psf_radial, the strict PSF plotter     *)
(*   fix_psf_radial_robust.py robust_psf_radial, the robust PSF plotter    *)
(*   fix_denormalize.py       safe_denormalize                             *)
(*                                                                         *)
(* Text is modelled as a sequence of atoms (pieces of text); the literals  *)
(* the patcher searches for are split where they overlap one another, so   *)
(* that Python's substring test and str.replace are computed, not assumed. *)
(***************************************************************************)
EXTENDS Integers, Sequences, FiniteSets, TLC

VARIABLES
    \* ---- fix_notebook.py
    nbFile,          \* the file at NOTEBOOK_PATH
    bakFile,         \* the file at NOTEBOOK_PATH + ".bak"
    notebook,        \* the in-memory document (the script's `notebook`)
    modified_cells,  \* the script's `modified_cells` list
    nb_pc,           \* the script's position
    runs,            \* completed runs of the script on this path
    atStart,         \* history: nbFile when the current run began
    origFile,        \* history: nbFile before the first run
    \* ---- fix_psf_radial.py / fix_psf_radial_robust.py
    variant,         \* which plotter was called: "strict" or "robust"
    M,               \* number of field points
    log_scale,       \* the log_scale argument
    i,               \* the loop index (0-based, as in the code)
    psf,             \* the PSF of the current field point
    psfs,            \* the list of collected PSFs
    calls,           \* the calls made to lens.psf_rgb, with their outcomes
    image,           \* the file at save_name
    returned,        \* the value returned to the caller
    psf_pc,          \* the plotter's position
    \* ---- fix_denormalize.py
    dn_in,           \* shape of the tensor passed to safe_denormalize
    tensor,          \* shape of the local `tensor`
    original_dim,    \* the local `original_dim` (0 before it is assigned)
    result,          \* shape of the local `result`
    dn_pc            \* safe_denormalize's position

nbVars  == <<nbFile, bakFile, notebook, modified_cells, nb_pc, runs, atStart, origFile>>
psfVars == <<variant, M, log_scale, i, psf, psfs, calls, image, returned, psf_pc>>
dnVars  == <<dn_in, tensor, original_dim, result, dn_pc>>
vars    == <<nbVars, psfVars, dnVars>>

----------------------------------------------------------------------------
(* Bounds of the model.                                                    *)

MaxCells == 2
MaxTotalLines == 2
MaxRuns == 2
MaxM == 3
MaxSide == 3
MaxBatch == 3

----------------------------------------------------------------------------
(* Python's str operations on sequences of atoms.                          *)

\* `pat in s`
Contains(s, pat) ==
    \E k \in 0..(Len(s) - Len(pat)) : SubSeq(s, k + 1, k + Len(pat)) = pat

\* s.replace(old, new): left to right, non-overlapping, one pass
RECURSIVE Replace(_, _, _)
Replace(s, old, new) ==
    IF Len(s) < Len(old) THEN s
    ELSE IF SubSeq(s, 1, Len(old)) = old
         THEN new \o Replace(SubSeq(s, Len(old) + 1, Len(s)), old, new)
         ELSE <<Head(s)>> \o Replace(Tail(s), old, new)

\* ''.join(lines)
RECURSIVE Join(_)
Join(lines) == IF lines = <<>> THEN <<>> ELSE Head(lines) \o Join(Tail(lines))

----------------------------------------------------------------------------
(* fix_notebook.py: the literals.                                          *)

TRAIN_DEF == <<"def ", "end2end_train">>
PATH_VAR  == <<"DIV2K", "_PATH">>
NEW_PATH  == <<"/nas1/", "DIV2K">>
OLD_NAME  == <<"denormalize", "_ImageNet">>
NEW_NAME  == <<"safe_", "denormalize">>
PATH_LINE == <<"    ", "DIV2K", "_PATH", " = '", "/nas1/", "DIV2K", "'  # Updated path\n">>

\* json.dump(..., indent=2)
JsonIndent == 2

import_cell ==
    [cell_type |-> "code", execution_count |-> "None", metadata |-> "{}",
     source |-> << <<"# Fix for tensor dimension issues\n">>,
                   <<"from fix_", "denormalize", " import ", "safe_", "denormalize",
                     ", vis_sample">> >>,
     outputs |-> <<>>]

dataset_path_cell ==
    [cell_type |-> "code", execution_count |-> "None", metadata |-> "{}",
     source |-> << <<"# Update ", "DIV2K", " dataset path\n">>,
                   <<"DIV2K", "_PATH", " = '", "/nas1/", "DIV2K", "'\n">>,
                   <<"os.makedirs(", "DIV2K", "_PATH", ", exist_ok=True)\n">>,
                   <<"print(f'", "DIV2K", " dataset will be stored in {", "DIV2K",
                     "_PATH", "}')">> >>,
     outputs |-> <<>>]

----------------------------------------------------------------------------
(* Files and documents. A file holds a JSON text: the document it encodes  *)
(* and the indentation it was written with.                                *)

NoFile == [exists |-> FALSE]
NoDoc  == [loaded |-> FALSE]

json_load(f) == f.doc
json_dump(doc) == [exists |-> TRUE, doc |-> doc, indent |-> JsonIndent]

\* a variant that leaves an existing file alone
WriteFileIfAbsent(old, doc) == IF old.exists THEN old ELSE json_dump(doc)

\* with open(path, 'w') as f: json.dump(doc, f, indent=2)
WriteFile(old, doc) == json_dump(doc)

----------------------------------------------------------------------------
(* The cells of the documents the patcher is run on.                       *)

Lines ==
    { <<"def ", "end2end_train">>,
      <<"def ">>,
      <<"end2end_train", "denormalize", "_ImageNet", "denormalize", "_ImageNet">>,
      <<"denormalize", "_ImageNet", "_ImageNet">>,
      <<"DIV2K", "_PATH", "denormalize", "_ImageNet">>,
      <<"DIV2K", "_PATH", "/nas1/", "DIV2K", "denormalize", "_ImageNet">>,
      <<"x\n">> }

\* cells with exactly n source lines: those with the expected structure and,
\* for n = 0, those lacking a key
CellsWith(n) ==
    [cell_type : {"code", "markdown"}, source : [1..n -> Lines]]
    \cup (IF n = 0
          THEN {[source |-> <<>>], [cell_type |-> "code"], [cell_type |-> "markdown"]}
          ELSE {})

LinesOf(cell) == IF "source" \in DOMAIN cell THEN Len(cell.source) ELSE 0

RECURSIVE TotalLines(_)
TotalLines(cells) ==
    IF cells = <<>> THEN 0 ELSE LinesOf(Head(cells)) + TotalLines(Tail(cells))

----------------------------------------------------------------------------
(* fix_notebook.py: the script, statement by statement.                    *)

\* a variant that scans before it writes the backup
StepAfterScanFirst(p) ==
    CASE p = "load"     -> "scan"
      [] p = "scan"     -> "backup"
      [] p = "backup"   -> "assemble"
      [] p = "assemble" -> "write"
      [] p = "write"    -> "done"

\* a variant that overwrites the notebook right after the backup
StepAfterWriteFirst(p) ==
    CASE p = "load"     -> "backup"
      [] p = "backup"   -> "write"
      [] p = "write"    -> "scan"
      [] p = "scan"     -> "assemble"
      [] p = "assemble" -> "done"

\* the statement that follows each statement of the script
StepAfter(p) ==
    CASE p = "load"     -> "backup"
      [] p = "backup"   -> "scan"
      [] p = "scan"     -> "assemble"
      [] p = "assemble" -> "write"
      [] p = "write"    -> "done"

\* a variant that does not look at the cell's type
IsTrainCellAnyType(cell) ==
    "source" \in DOMAIN cell /\ Contains(Join(cell.source), TRAIN_DEF)

\* the condition of the scan's `if`
IsTrainCell(cell) ==
    cell.cell_type = "code" /\ Contains(Join(cell.source), TRAIN_DEF)

\* the body of `for line in cell['source']`
RewriteLine(line) ==
    IF Contains(line, PATH_VAR) /\ ~Contains(line, NEW_PATH) THEN PATH_LINE
    ELSE IF Contains(line, OLD_NAME) THEN Replace(line, OLD_NAME, NEW_NAME)
    ELSE line

\* one iteration of `for cell in notebook['cells']` on a cell that raises nothing
ScanCell(cell) ==
    IF IsTrainCell(cell)
    THEN [cell EXCEPT !.source = [k \in 1..Len(@) |-> RewriteLine(@[k])]]
    ELSE cell

\* the iteration raises KeyError: cell['cell_type'] or cell['source'] is missing
CellRaises(cell) ==
    \/ "cell_type" \notin DOMAIN cell
    \/ cell.cell_type = "code" /\ "source" \notin DOMAIN cell

\* the first cell whose iteration raises, 0 if none does
FirstBad(cells) ==
    IF \E k \in 1..Len(cells) : CellRaises(cells[k])
    THEN CHOOSE k \in 1..Len(cells) :
            CellRaises(cells[k]) /\ \A j \in 1..(k - 1) : ~CellRaises(cells[j])
    ELSE 0

\* the cells as the loop leaves them: the cell dicts are mutated in place
ScannedCells(cells) ==
    LET bad == FirstBad(cells)
    IN  [k \in 1..Len(cells) |->
            IF bad = 0 \/ k < bad THEN ScanCell(cells[k]) ELSE cells[k]]

\* a variant that inserts the new cells in front of the first cell
ReassembledAtFront(cells) == <<import_cell, dataset_path_cell>> \o cells

\* [cells[0]] + [import_cell, dataset_path_cell] + cells[1:]
Reassembled(cells) ==
    <<cells[1]>> \o <<import_cell, dataset_path_cell>> \o SubSeq(cells, 2, Len(cells))

NbInit ==
    /\ nbFile \in {[exists |-> TRUE, doc |-> d, indent |-> 1] :
                        d \in {[nbformat |-> 4], [nbformat |-> 4, cells |-> <<>>]}}
    /\ bakFile = NoFile
    /\ notebook = NoDoc
    /\ modified_cells = <<>>
    /\ nb_pc = "load"
    /\ runs = 0
    /\ atStart = nbFile
    /\ origFile = nbFile

\* Before the script is first run, the notebook's author adds a cell to it.
AddCell ==
    /\ nb_pc = "load" /\ runs = 0
    /\ "cells" \in DOMAIN nbFile.doc
    /\ Len(nbFile.doc.cells) < MaxCells
    /\ \E k \in 0..(MaxTotalLines - TotalLines(nbFile.doc.cells)) :
         \E c \in CellsWith(k) :
            nbFile' = [nbFile EXCEPT !.doc.cells = Append(@, c)]
    /\ atStart' = nbFile'
    /\ origFile' = nbFile'
    /\ UNCHANGED <<bakFile, notebook, modified_cells, nb_pc, runs, psfVars, dnVars>>

\* with open(NOTEBOOK_PATH, 'r') as f: notebook = json.load(f)
Load ==
    /\ nb_pc = "load"
    /\ notebook' = json_load(nbFile)
    /\ nb_pc' = StepAfter("load")
    /\ UNCHANGED <<nbFile, bakFile, modified_cells, runs, atStart, origFile, psfVars, dnVars>>

\* with open(backup_path, 'w') as f: json.dump(notebook, f, indent=2)
Backup ==
    /\ nb_pc = "backup"
    /\ bakFile' = WriteFile(bakFile, notebook)
    /\ nb_pc' = StepAfter("backup")
    /\ UNCHANGED <<nbFile, notebook, modified_cells, runs, atStart, origFile, psfVars, dnVars>>

\* modified_cells = []; for cell in notebook['cells']: ...
Scan ==
    /\ nb_pc = "scan"
    /\ IF "cells" \notin DOMAIN notebook
       THEN /\ nb_pc' = "aborted"
            /\ modified_cells' = <<>>
            /\ UNCHANGED notebook
       ELSE LET bad == FirstBad(notebook.cells)
                new == ScannedCells(notebook.cells)
            IN  /\ notebook' = [notebook EXCEPT !.cells = new]
                /\ modified_cells' =
                       IF bad = 0 THEN new ELSE SubSeq(new, 1, bad - 1)
                /\ nb_pc' = IF bad = 0 THEN StepAfter("scan") ELSE "aborted"
    /\ UNCHANGED <<nbFile, bakFile, runs, atStart, origFile, psfVars, dnVars>>

\* notebook['cells'] = [notebook['cells'][0]] + [...] + notebook['cells'][1:]
Assemble ==
    /\ nb_pc = "assemble"
    /\ IF notebook.cells = <<>>
       THEN /\ nb_pc' = "aborted"
            /\ UNCHANGED notebook
       ELSE /\ notebook' = [notebook EXCEPT !.cells = Reassembled(@)]
            /\ nb_pc' = StepAfter("assemble")
    /\ UNCHANGED <<nbFile, bakFile, modified_cells, runs, atStart, origFile, psfVars, dnVars>>

\* with open(NOTEBOOK_PATH, 'w') as f: json.dump(notebook, f, indent=2)
WriteBack ==
    /\ nb_pc = "write"
    /\ nbFile' = WriteFile(nbFile, notebook)
    /\ nb_pc' = StepAfter("write")
    /\ runs' = runs + 1
    /\ UNCHANGED <<bakFile, notebook, modified_cells, atStart, origFile, psfVars, dnVars>>

\* the script is run again on the same path
RunAgain ==
    /\ nb_pc = "done"
    /\ runs < MaxRuns
    /\ nb_pc' = "load"
    /\ notebook' = NoDoc
    /\ modified_cells' = <<>>
    /\ atStart' = nbFile
    /\ UNCHANGED <<nbFile, bakFile, runs, origFile, psfVars, dnVars>>

NbNext == AddCell \/ Load \/ Backup \/ Scan \/ Assemble \/ WriteBack \/ RunAgain

----------------------------------------------------------------------------
(* fix_psf_radial.py and fix_psf_radial_robust.py.                         *)
(*                                                                         *)
(* The lens is a black box: a call to lens.psf_rgb returns a PSF ("ok") or *)
(* raises. What a handler catches depends only on the class of the         *)
(* exception: AssertionError, another subclass of Exception, or a          *)
(* BaseException outside Exception (KeyboardInterrupt, SystemExit).        *)

Outcomes == {"ok", "AssertionError", "Exception", "BaseException"}

\* the ks argument (its default)
ks == 101

save_name == "psf_radial.png"

\* whether `except <clause>` catches an exception of class `kind`
Catches(clause, kind) ==
    CASE clause = "AssertionError" -> kind = "AssertionError"
      [] clause = "Exception"      -> kind \in {"AssertionError", "Exception"}

\* a variant that passes recenter=False first
RecenterOfSwapped(attempt) == attempt # 1

\* the recenter argument of the first and of the second call for a field point
RecenterOf(attempt) == attempt = 1

\* lens.psf_rgb(points=points[i], ks=ks, recenter=..., spp=4096), as logged
LensCall(p, attempt, outcome) ==
    [point |-> p, recenter |-> RecenterOf(attempt), ks |-> ks, spp |-> 4096,
     outcome |-> outcome]

\* what a successful call returns: one channel per wavelength of WAVE_RGB
LensPsf(p, attempt) ==
    [c \in 1..3 |-> [shape |-> <<"lens", <<"R", "G", "B">>[c]>>, point |-> p,
                     recenter |-> RecenterOf(attempt), scale |-> "raw"]]

\* the placeholder: sigma = 2.0 + i*1.5 (kept as 2*sigma), gaussian / gaussian.sum(),
\* torch.stack([gaussian, gaussian, gaussian], dim=0)
GaussianPsf(p) ==
    LET gaussian == [shape |-> <<"gaussian", 4 + 3 * p, ks>>, point |-> p,
                     recenter |-> FALSE, scale |-> "sum = 1"]
    IN  <<gaussian, gaussian, gaussian>>

\* psf /= psf.max(); if log_scale: log, then min-max rescaling
Normalized(q, log) ==
    [c \in 1..3 |-> [q[c] EXCEPT !.scale = IF log THEN "log, min = 0, max = 1"
                                                ELSE "max = 1"]]

\* a variant in which the strict plotter, too, retries
AfterFirstCallLenient(v, outcome) ==
    IF outcome = "ok" THEN "normalize"
    ELSE IF Catches("AssertionError", outcome) THEN "retry"
    ELSE "raised"

\* a variant whose first handler is `except Exception`
AfterFirstCallCatchAll(v, outcome) ==
    IF outcome = "ok" THEN "normalize"
    ELSE IF v = "robust" /\ Catches("Exception", outcome) THEN "retry"
    ELSE "raised"

\* where the first call leaves the plotter: the strict plotter has no handler,
\* the robust one has `except AssertionError`
AfterFirstCall(v, outcome) ==
    IF outcome = "ok" THEN "normalize"
    ELSE IF v = "robust" /\ Catches("AssertionError", outcome) THEN "retry"
    ELSE "raised"

\* a variant without the inner handler
AfterRetryNoHandler(outcome) ==
    IF outcome = "ok" THEN "normalize" ELSE "raised"

\* where the second call leaves the robust plotter: `except Exception as e`
AfterRetry(outcome) ==
    IF outcome = "ok" THEN "normalize"
    ELSE IF Catches("Exception", outcome) THEN "placeholder"
    ELSE "raised"

PsfInit ==
    /\ variant \in {"strict", "robust"}
    /\ M \in 1..MaxM
    /\ log_scale \in BOOLEAN
    /\ i = 0
    /\ psf = <<>>
    /\ psfs = <<>>
    /\ calls = <<>>
    /\ image = NoFile
    /\ returned = "nothing"
    /\ psf_pc = "call"

\* psf = lens.psf_rgb(points=points[i], ks=ks, recenter=True, spp=4096)
FirstCall ==
    /\ psf_pc = "call"
    /\ i < M
    /\ \E outcome \in Outcomes :
         /\ calls' = Append(calls, LensCall(i, 1, outcome))
         /\ psf' = IF outcome = "ok" THEN LensPsf(i, 1) ELSE psf
         /\ psf_pc' = AfterFirstCall(variant, outcome)
    /\ UNCHANGED <<variant, M, log_scale, i, psfs, image, returned, nbVars, dnVars>>

\* except AssertionError: psf = lens.psf_rgb(..., recenter=False, spp=4096)
Retry ==
    /\ psf_pc = "retry"
    /\ \E outcome \in Outcomes :
         /\ calls' = Append(calls, LensCall(i, 2, outcome))
         /\ psf' = IF outcome = "ok" THEN LensPsf(i, 2) ELSE psf
         /\ psf_pc' = AfterRetry(outcome)
    /\ UNCHANGED <<variant, M, log_scale, i, psfs, image, returned, nbVars, dnVars>>

\* except Exception as e: the Gaussian placeholder
Placeholder ==
    /\ psf_pc = "placeholder"
    /\ psf' = GaussianPsf(i)
    /\ psf_pc' = "normalize"
    /\ UNCHANGED <<variant, M, log_scale, i, psfs, calls, image, returned, nbVars, dnVars>>

\* psf /= psf.max(); the log scale; psfs.append(psf); the next iteration
Normalize ==
    /\ psf_pc = "normalize"
    /\ psfs' = Append(psfs, Normalized(psf, log_scale))
    /\ i' = i + 1
    /\ psf_pc' = IF i + 1 < M THEN "call" ELSE "save"
    /\ UNCHANGED <<variant, M, log_scale, psf, calls, image, returned, nbVars, dnVars>>

\* psf_grid = make_grid(psfs, nrow=M, ...); save_image(psf_grid, save_name, ...)
Save ==
    /\ psf_pc = "save"
    /\ image' = [exists |-> TRUE, grid |-> psfs, nrow |-> M]
    /\ psf_pc' = "return"
    /\ UNCHANGED <<variant, M, log_scale, i, psf, psfs, calls, returned, nbVars, dnVars>>

\* return save_name
Return ==
    /\ psf_pc = "return"
    /\ returned' = save_name
    /\ psf_pc' = "done"
    /\ UNCHANGED <<variant, M, log_scale, i, psf, psfs, calls, image, nbVars, dnVars>>

PsfNext == FirstCall \/ Retry \/ Placeholder \/ Normalize \/ Save \/ Return

----------------------------------------------------------------------------
(* fix_denormalize.py: safe_denormalize, on the shapes of its tensors.     *)

\* the image tensors: (3, H, W) and (B, 3, H, W)
Shapes ==
    {<<3, h, w>> : h \in 1..MaxSide, w \in 1..MaxSide}
    \cup {<<b, 3, h, w>> : b \in 1..MaxBatch, h \in 1..MaxSide, w \in 1..MaxSide}

\* tensor.unsqueeze(0)
unsqueeze0(shape) == <<1>> \o shape

\* tensor.squeeze(0): removes dimension 0 if its size is 1
squeeze0(shape) == IF shape # <<>> /\ shape[1] = 1 THEN Tail(shape) ELSE shape

\* torch.zeros_like(tensor)
zeros_like(shape) == shape

\* the shape of an elementwise operation on two tensors of the same rank
Broadcast(a, b) ==
    [k \in 1..Len(a) |-> IF a[k] = 1 THEN b[k] ELSE a[k]]

\* `if original_dim == 3`, before the computation
NeedsBatch(dim) == dim = 3

\* a variant that always squeezes the result
BatchWasAddedAlways(dim) == TRUE

\* `if original_dim == 3`, after the computation
BatchWasAdded(dim) == dim = 3

DnInit ==
    /\ dn_in \in Shapes
    /\ tensor = dn_in
    /\ original_dim = 0
    /\ result = <<>>
    /\ dn_pc = "entry"

\* original_dim = tensor.dim()
GetDim ==
    /\ dn_pc = "entry"
    /\ original_dim' = Len(tensor)
    /\ dn_pc' = "unsqueeze"
    /\ UNCHANGED <<dn_in, tensor, result, nbVars, psfVars>>

\* if original_dim == 3: tensor = tensor.unsqueeze(0)
Unsqueeze ==
    /\ dn_pc = "unsqueeze"
    /\ tensor' = IF NeedsBatch(original_dim) THEN unsqueeze0(tensor) ELSE tensor
    /\ dn_pc' = "compute"
    /\ UNCHANGED <<dn_in, original_dim, result, nbVars, psfVars>>

\* mean, std = zeros_like(tensor), filled per channel; result = tensor * std + mean
Compute ==
    /\ dn_pc = "compute"
    /\ LET mean == zeros_like(tensor)
           std  == zeros_like(tensor)
       IN  result' = Broadcast(Broadcast(tensor, std), mean)
    /\ dn_pc' = "squeeze"
    /\ UNCHANGED <<dn_in, tensor, original_dim, nbVars, psfVars>>

\* if original_dim == 3: result = result.squeeze(0)
Squeeze ==
    /\ dn_pc = "squeeze"
    /\ result' = IF BatchWasAdded(original_dim) THEN squeeze0(result) ELSE result
    /\ dn_pc' = "returned"
    /\ UNCHANGED <<dn_in, tensor, original_dim, nbVars, psfVars>>

DnNext == GetDim \/ Unsqueeze \/ Compute \/ Squeeze

----------------------------------------------------------------------------
(* The specifications: one per script, the others idle.                    *)

NbIdle ==
    /\ nbFile = NoFile /\ bakFile = NoFile /\ notebook = NoDoc
    /\ modified_cells = <<>> /\ nb_pc = "idle" /\ runs = 0
    /\ atStart = NoFile /\ origFile = NoFile

PsfIdle ==
    /\ variant = "none" /\ M = 0 /\ log_scale = FALSE /\ i = 0
    /\ psf = <<>> /\ psfs = <<>> /\ calls = <<>>
    /\ image = NoFile /\ returned = "nothing" /\ psf_pc = "idle"

DnIdle ==
    /\ dn_in = <<>> /\ tensor = <<>> /\ original_dim = 0 /\ result = <<>>
    /\ dn_pc = "idle"

InitPsf == NbIdle /\ PsfInit /\ DnIdle

SpecPsf == InitPsf /\ [][PsfNext]_vars

InitDenormalize == NbIdle /\ PsfIdle /\ DnInit

SpecDenormalize == InitDenormalize /\ [][DnNext]_vars

InitNotebook == NbInit /\ PsfIdle /\ DnIdle

SpecNotebook == InitNotebook /\ [][NbNext]_vars

----------------------------------------------------------------------------
(* Properties of the Notebook Patcher.                                     *)

\* the cells of the document the current run loaded, and of the file now
LoadedCells  == atStart.doc.cells
WrittenCells == nbFile.doc.cells

\* where the k-th loaded cell stands in the written document
PosOf(k) == IF k = 1 THEN 1 ELSE k + 2

SourceOf(cell) == IF "source" \in DOMAIN cell THEN cell.source ELSE <<>>

\* C1: in every run the backup is written before any in-memory mutation of
\* the document and before the notebook path is overwritten, and it holds
\* the document that was loaded at the start of that run.
C1_BackupFirst ==
    /\ nb_pc \in {"load", "backup"} =>
          /\ nbFile = atStart
          /\ notebook \in {NoDoc, json_load(atStart)}
    /\ nb_pc \notin {"load", "backup"} =>
          /\ bakFile.exists
          /\ json_load(bakFile) = json_load(atStart)

C1_Witness ==
    /\ nb_pc = "done"
    /\ notebook # json_load(atStart)
    /\ \E k \in 1..Len(LoadedCells) : WrittenCells[PosOf(k)] # LoadedCells[k]
    /\ json_load(bakFile) = json_load(atStart)

\* C2 as stated: the written document has n + 2 cells, position 0 holds
\* the first original cell unchanged, positions 1 and 2 the import cell and
\* the dataset-path cell, positions 3.. the remaining cells as scanned.
C2_FirstCellUnchanged ==
    nb_pc = "done" =>
        /\ Len(WrittenCells) = Len(LoadedCells) + 2
        /\ WrittenCells[1] = LoadedCells[1]
        /\ WrittenCells[2] = import_cell
        /\ WrittenCells[3] = dataset_path_cell
        /\ \A k \in 2..Len(LoadedCells) : WrittenCells[k + 2] = ScanCell(LoadedCells[k])

\* C2, amended: the written document has n + 2 cells; position 0 holds the
\* first original cell as the scan left it (unchanged unless it is a code
\* cell containing the training-function definition), positions 1 and 2
\* the import cell and the dataset-path cell, positions 3..n+1 the
\* remaining original cells, as the scan left them, in their order.
C2_Reassembly ==
    nb_pc = "done" =>
        /\ Len(LoadedCells) >= 1
        /\ Len(WrittenCells) = Len(LoadedCells) + 2
        /\ WrittenCells[1] = ScanCell(LoadedCells[1])
        /\ (\/ LoadedCells[1].cell_type # "code"
            \/ ~Contains(Join(SourceOf(LoadedCells[1])), TRAIN_DEF))
              => WrittenCells[1] = LoadedCells[1]
        /\ WrittenCells[2] = import_cell
        /\ WrittenCells[3] = dataset_path_cell
        /\ \A k \in 2..Len(LoadedCells) : WrittenCells[k + 2] = ScanCell(LoadedCells[k])

C2_Witness ==
    /\ nb_pc = "done"
    /\ Len(LoadedCells) >= 2
    /\ WrittenCells[1] # LoadedCells[1]
    /\ WrittenCells[2] = import_cell
    /\ WrittenCells[4] = LoadedCells[2]

\* a line that references the dataset-path variable without the new path
PathCase(line) == Contains(line, PATH_VAR) /\ ~Contains(line, NEW_PATH)

\* every occurrence of the old name in `old` stands replaced in `new`, and
\* the rest of the line is as it was
OccurrencesReplaced(old, new) ==
    /\ Len(new) = Len(old)
    /\ \A q \in 1..Len(old) :
          IF q < Len(old) /\ SubSeq(old, q, q + 1) = OLD_NAME
          THEN SubSeq(new, q, q + 1) = NEW_NAME
          ELSE IF q > 1 /\ SubSeq(old, q - 1, q) = OLD_NAME
          THEN TRUE
          ELSE new[q] = old[q]

\* C3 as stated: in every cell, of any type, whose source contained the
\* definition, no line contains the old name, every line that referenced
\* the path variable without the new path is the new assignment, every
\* line referencing neither is unchanged; other cells are unchanged.
C3_AnyCellType ==
    nb_pc = "done" =>
        \A k \in 1..Len(LoadedCells) :
            LET old == LoadedCells[k]
                new == WrittenCells[PosOf(k)]
            IN  IF Contains(Join(SourceOf(old)), TRAIN_DEF)
                THEN /\ Len(new.source) = Len(old.source)
                     /\ \A j \in 1..Len(old.source) :
                          /\ ~Contains(new.source[j], OLD_NAME)
                          /\ PathCase(old.source[j]) => new.source[j] = PATH_LINE
                          /\ ~Contains(old.source[j], PATH_VAR)
                                /\ ~Contains(old.source[j], OLD_NAME)
                                => new.source[j] = old.source[j]
                ELSE new = old

\* C3, amended: in every code cell whose source contained the definition,
\* every line that referenced the path variable without the new path is the
\* new assignment; in every other line each occurrence of the old name is
\* replaced by the new name, so that the old name remains only where an
\* occurrence was directly followed by "_ImageNet"; a line with no
\* occurrence is unchanged. Cells of another type, and code cells
\* without the definition, are unchanged.
C3_CodeCellsRewritten ==
    nb_pc = "done" =>
        \A k \in 1..Len(LoadedCells) :
            LET old == LoadedCells[k]
                new == WrittenCells[PosOf(k)]
            IN  IF old.cell_type = "code" /\ Contains(Join(old.source), TRAIN_DEF)
                THEN /\ Len(new.source) = Len(old.source)
                     /\ [new EXCEPT !.source = old.source] = old
                     /\ \A j \in 1..Len(old.source) :
                          LET ol == old.source[j]
                              nl == new.source[j]
                          IN  IF PathCase(ol) THEN nl = PATH_LINE
                              ELSE /\ OccurrencesReplaced(ol, nl)
                                   /\ Contains(nl, OLD_NAME) =>
                                         Contains(ol, OLD_NAME \o <<"_ImageNet">>)
                                   /\ ~Contains(ol, OLD_NAME) => nl = ol
                ELSE new = old

C3_Witness ==
    /\ nb_pc = "done"
    /\ \E k \in 1..Len(LoadedCells) :
          LET old == LoadedCells[k]
              new == WrittenCells[PosOf(k)]
          IN  /\ IsTrainCell(old)
              /\ \E j \in 1..Len(old.source) :
                    /\ Contains(old.source[j], OLD_NAME)
                    /\ ~PathCase(old.source[j])
                    /\ Contains(new.source[j], NEW_NAME)
                    /\ ~Contains(new.source[j], OLD_NAME)

\* C9: the patcher is not idempotent and overwrites its backup on every
\* run: after k runs the notebook has n + 2k cells, a fresh import cell and
\* dataset-path cell after cell 0 for each run, and the backup equals the
\* notebook as it stood after run k-1, so for k >= 2 not the original.
C9_NotIdempotent ==
    nb_pc = "done" =>
        /\ runs >= 1
        /\ Len(WrittenCells) = Len(origFile.doc.cells) + 2 * runs
        /\ \A r \in 1..runs :
              /\ WrittenCells[2 * r] = import_cell
              /\ WrittenCells[2 * r + 1] = dataset_path_cell
        /\ json_load(bakFile) = json_load(atStart)
        /\ json_load(nbFile) # json_load(atStart)
        /\ runs = 1 => json_load(bakFile) = json_load(origFile)
        /\ runs >= 2 => json_load(bakFile) # json_load(origFile)

C9_Witness ==
    /\ nb_pc = "done"
    /\ runs = 2
    /\ Len(WrittenCells) = Len(origFile.doc.cells) + 4
    /\ json_load(bakFile) # json_load(origFile)

\* C10: if a run aborts after the backup was written and before the final
\* write, the file at the notebook path is as it was at the start of the
\* run and the backup holds a copy of that content; the notebook path is
\* overwritten only after the scan and the reassembly have completed.
C10_AbortLeavesNotebook ==
    /\ nb_pc = "aborted" =>
          /\ nbFile = atStart
          /\ bakFile.exists
          /\ json_load(bakFile) = json_load(atStart)
    /\ nbFile # atStart => nb_pc = "done"

C10_Witness ==
    /\ nb_pc = "aborted"
    /\ "cells" \in DOMAIN notebook
    /\ notebook # json_load(atStart)
    /\ nbFile = atStart

----------------------------------------------------------------------------
(* Properties of the PSF plotters.                                         *)

\* the calls made for field point p, in order
CallsFor(p) == SelectSeq(calls, LAMBDA c : c.point = p)

\* the lens raised a validity failure for p with and without recentering
FailedValidityTwice(p) ==
    /\ Len(CallsFor(p)) = 2
    /\ \A k \in 1..2 : CallsFor(p)[k].outcome = "AssertionError"

IsPlaceholder(q) == \A c \in 1..3 : q[c].shape[1] = "gaussian"

\* C4: in the robust plotter, a field point for which the lens raises a
\* validity failure both with and without recentering gets the Gaussian
\* placeholder (three identical channels); as long as the lens fails in no
\* other way the call does not abort, collects exactly M PSFs in field-point
\* order, saves the grid and returns save_name.
C4_PlaceholderOnValidityFailure ==
    (variant = "robust" /\ \A k \in 1..Len(calls) :
                              calls[k].outcome \in {"ok", "AssertionError"}) =>
        /\ psf_pc # "raised"
        /\ \A k \in 1..Len(psfs) :
              /\ \A c \in 1..3 : psfs[k][c].point = k - 1
              /\ FailedValidityTwice(k - 1) =>
                    /\ IsPlaceholder(psfs[k])
                    /\ psfs[k][1] = psfs[k][2] /\ psfs[k][2] = psfs[k][3]
        /\ psf_pc \in {"return", "done"} =>
              /\ Len(psfs) = M
              /\ image = [exists |-> TRUE, grid |-> psfs, nrow |-> M]
        /\ psf_pc = "done" => returned = save_name

C4_Witness ==
    /\ variant = "robust"
    /\ psf_pc = "done"
    /\ M >= 2
    /\ \E p \in 0..(M - 1) : FailedValidityTwice(p) /\ IsPlaceholder(psfs[p + 1])
    /\ \E p \in 0..(M - 1) : ~IsPlaceholder(psfs[p + 1])
    /\ image.exists /\ returned = save_name

\* C5: the strict plotter writes the image and returns save_name when the
\* lens succeeds for all M field points; when the lens raises on any field
\* point the failure propagates, no image is written and nothing is returned.
C5_StrictPropagates ==
    variant = "strict" =>
        /\ (\E k \in 1..Len(calls) : calls[k].outcome # "ok") =>
              /\ psf_pc = "raised"
              /\ image = NoFile
              /\ returned = "nothing"
        /\ psf_pc = "raised" => calls[Len(calls)].outcome # "ok"
        /\ psf_pc = "done" =>
              /\ Len(calls) = M
              /\ \A k \in 1..M : calls[k] = LensCall(k - 1, 1, "ok")
              /\ Len(psfs) = M
              /\ image = [exists |-> TRUE, grid |-> psfs, nrow |-> M]
              /\ returned = save_name

C5_Witness ==
    /\ variant = "strict"
    /\ psf_pc = "raised"
    /\ Len(calls) >= 2
    /\ calls[1].outcome = "ok"
    /\ image = NoFile /\ returned = "nothing"

\* C6 as stated: whatever kind of failure the lens raises, no exception
\* escapes the robust plotter.
C6_NothingEscapes == variant = "robust" => psf_pc # "raised"

\* what the robust plotter does not handle
Escapes(c) ==
    \/ c.recenter /\ c.outcome \in {"Exception", "BaseException"}
    \/ ~c.recenter /\ c.outcome = "BaseException"

\* C6, amended: the robust plotter recovers locally a validity-assertion
\* failure of the attempt with recentering (by the retry) and any failure of
\* class Exception of the attempt without recentering (by the placeholder),
\* and the field point then ends with a PSF; a failure of another kind
\* raised by the attempt with recentering, and a failure outside class
\* Exception raised by the retry, escape the call; nothing else does.
C6_RecoversValidityFailures ==
    variant = "robust" =>
        /\ psf_pc = "raised" <=> (calls # <<>> /\ Escapes(calls[Len(calls)]))
        /\ \A k \in 1..Len(calls) : Escapes(calls[k]) => k = Len(calls)
        /\ \A p \in 0..(i - 1) :
              /\ Len(psfs) > p
              /\ CallsFor(p)[Len(CallsFor(p))].outcome # "ok" => IsPlaceholder(psfs[p + 1])

C6_Witness ==
    /\ variant = "robust"
    /\ psf_pc = "raised"
    /\ calls[Len(calls)].recenter /\ calls[Len(calls)].outcome = "Exception"
    /\ Len(psfs) >= 1
    /\ IsPlaceholder(psfs[1])
    /\ CallsFor(0)[2].outcome = "Exception"

\* C8: in the robust plotter the tiers are tried in order for each field
\* point: the call with recenter=True comes first; the call with
\* recenter=False is made only after that one raised a validity-assertion
\* failure; the placeholder is made only after the second call failed too;
\* the lens is called at most twice per field point and the first success
\* is used, so a field point whose first call succeeds has no second call
\* and no placeholder.
C8_TiersInOrder ==
    variant = "robust" =>
        /\ \A k \in 1..Len(calls) :
              IF calls[k].recenter
              THEN \A j \in 1..(k - 1) : calls[j].point < calls[k].point
              ELSE /\ k > 1
                   /\ calls[k - 1].point = calls[k].point
                   /\ calls[k - 1].recenter
                   /\ calls[k - 1].outcome = "AssertionError"
        /\ \A p \in 0..(M - 1) :
              LET cs == CallsFor(p)
              IN  /\ Len(cs) <= 2
                  /\ Len(cs) >= 1 /\ cs[1].outcome = "ok" => Len(cs) = 1
                  /\ p < Len(psfs) =>
                        LET last == cs[Len(cs)]
                        IN  IF last.outcome = "ok"
                            THEN \A c \in 1..3 :
                                    /\ psfs[p + 1][c].shape[1] = "lens"
                                    /\ psfs[p + 1][c].recenter = last.recenter
                            ELSE /\ Len(cs) = 2
                                 /\ ~last.recenter
                                 /\ IsPlaceholder(psfs[p + 1])
        /\ psf_pc = "placeholder" =>
              /\ ~calls[Len(calls)].recenter
              /\ calls[Len(calls)].outcome # "ok"
              /\ calls[Len(calls)].point = i

C8_Witness ==
    /\ variant = "robust"
    /\ psf_pc = "done"
    /\ M >= 3
    /\ Len(CallsFor(0)) = 1
    /\ Len(CallsFor(1)) = 2 /\ CallsFor(1)[2].outcome = "ok"
    /\ Len(CallsFor(2)) = 2 /\ IsPlaceholder(psfs[3])

----------------------------------------------------------------------------
(* Properties of safe_denormalize.                                         *)

\* C7: safe_denormalize preserves rank and shape for (3, H, W) and for
\* (B, 3, H, W); the batch dimension added for a rank-3 input is removed
\* before returning, and none is removed from a rank-4 input, B = 1 included.
C7_ShapePreserved ==
    /\ dn_pc \in {"compute", "squeeze"} =>
          tensor = (IF Len(dn_in) = 3 THEN <<1>> \o dn_in ELSE dn_in)
    /\ dn_pc = "returned" =>
          /\ Len(result) = Len(dn_in)
          /\ result = dn_in

C7_Witness ==
    /\ dn_pc = "returned"
    /\ Len(dn_in) = 3
    /\ dn_in[2] # dn_in[3]
    /\ Len(tensor) = 4
    /\ result = dn_in

====
